---- MODULE Spec2Model ----
(***************************************************************************)
(* Model of the post-wake monitor supervisor, src/app/monitor.py:          *)
(* WakeMonitorManager (start / get / get_all / cancel / shutdown), the     *)
(* poll loop _run of each MonitorState, and the eviction timers made by    *)
(* _schedule_eviction.                                                     *)
(*                                                                         *)
(* Scheduling: everything runs on one asyncio event loop.  A step of the   *)
(* model is what one coroutine does between two suspension points.  The    *)
(* bodies of start, cancel and shutdown contain no await inside            *)
(* `async with self._lock`, and nothing else ever holds the lock across a  *)
(* suspension, so the lock is free whenever one of them begins and each of *)
(* them is one step.  Task.cancel() only marks the task: the poll loop     *)
(* sees CancelledError when it next runs, at the await where it is         *)
(* suspended; a task cancelled before its first step never enters its      *)
(* body at all.                                                            *)
(*                                                                         *)
(* Specifications: Spec (all operations, few records), SpecPoll (one       *)
(* machine, every attempt budget), SpecWide (more calls of start()),       *)
(* SpecApi (what each call returns and whether it held the lock),          *)
(* SpecFair (Spec on an event loop that runs every ready task) and         *)
(* SpecTimers (one machine, every eviction timer fires in the end).        *)
(***************************************************************************)
EXTENDS Integers, Sequences, FiniteSets, TLC

\* ---------------------------------------------------------------- bounds
\* Machine ids used as keys.
NumKeys == 2
\* MonitorState objects constructed over a run (calls of start()).
MaxRecs == 2
\* Largest max_attempts passed to start() where the poll loop is studied.
MaxBudget == 3
\* MonitorState objects constructed over a run where the poll loop is studied.
MaxPollRecs == 2
\* MonitorState objects constructed over a run where the calls of start()
\* are studied.
MaxWideRecs == 3
\* MonitorState objects constructed over a run where the firing of the
\* eviction timers is studied.
MaxTimerRecs == 2
\* MonitorState objects constructed over a run where the callers of the
\* supervisor are followed (what each call returns, and under which lock).
MaxApiRecs == 1

\* ------------------------------------------------------ program constants
\* WakeMonitorManager._MAX_CONCURRENT.  The source sets 50; the model keeps
\* the comparison `active >= _MAX_CONCURRENT` and scales the number to the
\* machines it has, one less than their number, so that a start() on the
\* last idle machine meets a full supervisor.
MAX_CONCURRENT == NumKeys - 1

Keys == 1..NumKeys
\* max_attempts in Spec, scaled down from the default of 15: one attempt
\* takes the poll loop through each of its suspension points.
Budgets == {1}
\* max_attempts in SpecPoll, where the poll loop is studied.
PollBudgets == 0..MaxBudget
\* ip_address as start() tests it: empty or not.
Addresses == {"", "10.0.0.1"}

\* MonitorStatus
PENDING == "pending"
CHECKING == "checking"
ONLINE == "online"
TIMEOUT == "timeout"
CANCELLED == "cancelled"
NO_IP == "no_ip"

\* Python's None (of get() and of finished_at), and finished_at once
\* time.time() has been stored in it; records, so that either compares with
\* a snapshot or with the other.
None == [none |-> TRUE]
Stamp == [time |-> TRUE]

\* ret when the step just taken returned to no caller of the supervisor.
NoCall == [op |-> "", machine_id |-> 0, value |-> None]

VARIABLES
    recs,        \* every MonitorState object constructed so far, in creation order
    monitors,    \* self._monitors: machine_id -> index into recs
    generation,  \* self._generation
    timers,      \* pending _evict tasks, each holding (machine_id, generation)
    fired,       \* finished _evict tasks: (machine_id, generation, whether it popped)
    ret,         \* what the step just taken returned to its caller (SpecApi)
    locked       \* whether the step just taken ran inside `async with self._lock` (SpecApi)

vars == <<recs, monitors, generation, timers, fired, ret, locked>>

\* MonitorState.is_terminal
is_terminal(s) == s.status \in {ONLINE, TIMEOUT, CANCELLED, NO_IP}

\* MonitorState.to_dict (elapsed, a wall-clock reading, is left out)
to_dict(s) ==
    [machine_id |-> s.machine_id, ip_address |-> s.ip_address,
     status |-> s.status, attempts |-> s.attempts,
     max_attempts |-> s.max_attempts, finished |-> is_terminal(s)]

\* Variant: the test without `not state._task.done()`.
TaskRunningIgnoringDone(s) == s.task # "none"

\* `state._task and not state._task.done()`
TaskRunning(s) == s.task \notin {"none", "done"}

\* Variant: the entry is stored under the record's index, not the machine id.
DictSetByRecord(d, k, v) == [x \in (DOMAIN d) \cup {v} |-> IF x = v THEN v ELSE d[x]]

\* dict operations on self._monitors
DictSet(d, k, v) == [x \in (DOMAIN d) \cup {k} |-> IF x = k THEN v ELSE d[x]]
DictPop(d, k) == [x \in (DOMAIN d) \ {k} |-> d[x]]
DictClear(d) == [x \in {} |-> 0]

\* MonitorState(...) as start() constructs it; `task` is the position of the
\* record's poll loop ("none": no task was created), must_cancel the pending
\* cancellation request of that task; probes and answers record the calls of
\* check_host_online made for this record and what they returned, and
\* finished_writes counts the assignments of a time to finished_at.
MonitorState(machine_id, ip_address, gen, status, max_attempts, finished_at, task) ==
    [machine_id |-> machine_id, ip_address |-> ip_address, generation |-> gen,
     status |-> status, attempts |-> 0, max_attempts |-> max_attempts,
     finished_at |-> finished_at, task |-> task, must_cancel |-> FALSE,
     probes |-> 0, answers |-> <<>>,
     finished_writes |-> IF finished_at = None THEN 0 ELSE 1]

\* WakeMonitorManager.get
get(machine_id) ==
    IF machine_id \in DOMAIN monitors THEN to_dict(recs[monitors[machine_id]]) ELSE None

\* WakeMonitorManager.get_all
get_all == {to_dict(recs[monitors[k]]) : k \in DOMAIN monitors}

Init ==
    /\ recs = <<>>
    /\ monitors = [x \in {} |-> 0]
    /\ generation = 0
    /\ timers = {}
    /\ fired = {}
    /\ ret = NoCall
    /\ locked = FALSE

\* ret and locked are followed in SpecApi only.
Unobserved == UNCHANGED <<ret, locked>>

\* ------------------------------------------------------------ supervisor

\* MonitorState.max_attempts default, used when start() builds a record
\* without passing max_attempts (the refused and the no-IP record).
DEFAULT_MAX_ATTEMPTS == 15

\* Variant: the record is marked but task.cancel() is not called.
cancel_existing_recs_uncancelled(rs, mon, machine_id) ==
    IF machine_id \notin DOMAIN mon THEN rs
    ELSE LET old == mon[machine_id] IN
         IF TaskRunning(rs[old])
         THEN [rs EXCEPT ![old].status = CANCELLED,
                         ![old].finished_at = Stamp,
                         ![old].finished_writes = @ + 1]
         ELSE rs

\* Variant: the running task is cancelled but the record is left as it is.
cancel_existing_recs_unmarked(rs, mon, machine_id) ==
    IF machine_id \notin DOMAIN mon THEN rs
    ELSE LET old == mon[machine_id] IN
         IF TaskRunning(rs[old])
         THEN [rs EXCEPT ![old].must_cancel = TRUE]
         ELSE rs

\* _cancel_existing: its effect on the MonitorState objects.  Task.cancel()
\* leaves a request that the task sees when it next runs.
cancel_existing_recs(rs, mon, machine_id) ==
    IF machine_id \notin DOMAIN mon THEN rs
    ELSE LET old == mon[machine_id] IN
         IF TaskRunning(rs[old])
         THEN [rs EXCEPT ![old].must_cancel = TRUE,
                         ![old].status = CANCELLED,
                         ![old].finished_at = Stamp,
                         ![old].finished_writes = @ + 1]
         ELSE rs

\* Variant: the entry is left in the dict.
cancel_existing_monitors_kept(mon, machine_id) == mon

\* _cancel_existing: its effect on self._monitors (the pop) ...
cancel_existing_monitors(mon, machine_id) ==
    IF machine_id \notin DOMAIN mon THEN mon ELSE DictPop(mon, machine_id)

\* Variant: True whether or not there was an entry.
cancel_existing_ret_always(mon, machine_id) == TRUE

\* ... and its return value.
cancel_existing_ret(mon, machine_id) == machine_id \in DOMAIN mon

\* `sum(1 for s in self._monitors.values() if not s.is_terminal)`
ActiveCount(rs, mon) == Cardinality({k \in DOMAIN mon : ~is_terminal(rs[mon[k]])})

\* Variant: start() makes no capacity test.
AtCapacityNever(active) == FALSE

\* Variant: the cap compared with `>`.
AtCapacityStrict(active) == active > MAX_CONCURRENT

\* The capacity test of start().
AtCapacity(active) == active >= MAX_CONCURRENT

\* Variant: no _evict task is created.
schedule_eviction_dropped(ts, machine_id, gen) == ts

\* _schedule_eviction: one more _evict task, holding (machine_id, generation).
schedule_eviction(ts, machine_id, gen) == ts \cup {<<machine_id, gen>>}

\* Variant: the entry may be of a later generation than the timer.
EvictGuardLaterToo(rs, mon, machine_id, gen) ==
    /\ machine_id \in DOMAIN mon
    /\ rs[mon[machine_id]].generation >= gen

\* Variant: the generation is not compared.
EvictGuardAnyGeneration(rs, mon, machine_id, gen) == machine_id \in DOMAIN mon

\* Variant: the comparison never succeeds.
EvictGuardNever(rs, mon, machine_id, gen) == FALSE

\* The test an _evict task makes when its sleep is over.
EvictGuard(rs, mon, machine_id, gen) ==
    /\ machine_id \in DOMAIN mon
    /\ rs[mon[machine_id]].generation = gen

\* Variant: the counter is read without being incremented.
next_generation_same(g) == g

\* `self._generation += 1; gen = self._generation`
next_generation(g) == g + 1

\* Variant: the non-terminal records are counted before _cancel_existing.
StartCountingFirst(machine_id, ip_address, max_attempts) ==
    LET rs1 == cancel_existing_recs(recs, monitors, machine_id)
        mon1 == cancel_existing_monitors(monitors, machine_id)
        active == ActiveCount(recs, monitors)
        new == Len(recs) + 1
        gen == next_generation(generation)
    IN  IF AtCapacity(active)
        THEN /\ recs' = Append(rs1, MonitorState(machine_id, ip_address, 0, TIMEOUT,
                                                 DEFAULT_MAX_ATTEMPTS, Stamp, "none"))
             /\ monitors' = mon1
             /\ UNCHANGED <<generation, timers, fired>>
        ELSE IF ip_address = ""
        THEN /\ generation' = gen
             /\ recs' = Append(rs1, MonitorState(machine_id, "", gen, NO_IP,
                                                 DEFAULT_MAX_ATTEMPTS, Stamp, "none"))
             /\ monitors' = DictSet(mon1, machine_id, new)
             /\ timers' = schedule_eviction(timers, machine_id, gen)
             /\ fired' = fired
        ELSE /\ generation' = gen
             /\ recs' = Append(rs1, MonitorState(machine_id, ip_address, gen, PENDING,
                                                 max_attempts, None, "created"))
             /\ monitors' = DictSet(mon1, machine_id, new)
             /\ UNCHANGED <<timers, fired>>

\* Variant: the record of a refused call is inserted.
StartInsertingRefused(machine_id, ip_address, max_attempts) ==
    LET rs1 == cancel_existing_recs(recs, monitors, machine_id)
        mon1 == cancel_existing_monitors(monitors, machine_id)
        active == ActiveCount(rs1, mon1)
        new == Len(recs) + 1
        gen == next_generation(generation)
    IN  IF AtCapacity(active)
        THEN /\ recs' = Append(rs1, MonitorState(machine_id, ip_address, 0, TIMEOUT,
                                                 DEFAULT_MAX_ATTEMPTS, Stamp, "none"))
             /\ monitors' = DictSet(mon1, machine_id, new)
             /\ UNCHANGED <<generation, timers, fired>>
        ELSE IF ip_address = ""
        THEN /\ generation' = gen
             /\ recs' = Append(rs1, MonitorState(machine_id, "", gen, NO_IP,
                                                 DEFAULT_MAX_ATTEMPTS, Stamp, "none"))
             /\ monitors' = DictSet(mon1, machine_id, new)
             /\ timers' = schedule_eviction(timers, machine_id, gen)
             /\ fired' = fired
        ELSE /\ generation' = gen
             /\ recs' = Append(rs1, MonitorState(machine_id, ip_address, gen, PENDING,
                                                 max_attempts, None, "created"))
             /\ monitors' = DictSet(mon1, machine_id, new)
             /\ UNCHANGED <<timers, fired>>

\* WakeMonitorManager.start
Start(machine_id, ip_address, max_attempts) ==
    LET rs1 == cancel_existing_recs(recs, monitors, machine_id)
        mon1 == cancel_existing_monitors(monitors, machine_id)
        active == ActiveCount(rs1, mon1)
        new == Len(recs) + 1
        gen == next_generation(generation)
    IN  IF AtCapacity(active)
        THEN /\ recs' = Append(rs1, MonitorState(machine_id, ip_address, 0, TIMEOUT,
                                                 DEFAULT_MAX_ATTEMPTS, Stamp, "none"))
             /\ monitors' = mon1
             /\ UNCHANGED <<generation, timers, fired>>
        ELSE IF ip_address = ""
        THEN /\ generation' = gen
             /\ recs' = Append(rs1, MonitorState(machine_id, "", gen, NO_IP,
                                                 DEFAULT_MAX_ATTEMPTS, Stamp, "none"))
             /\ monitors' = DictSet(mon1, machine_id, new)
             /\ timers' = schedule_eviction(timers, machine_id, gen)
             /\ fired' = fired
        ELSE /\ generation' = gen
             /\ recs' = Append(rs1, MonitorState(machine_id, ip_address, gen, PENDING,
                                                 max_attempts, None, "created"))
             /\ monitors' = DictSet(mon1, machine_id, new)
             /\ UNCHANGED <<timers, fired>>

\* WakeMonitorManager.cancel
Cancel(machine_id) ==
    /\ recs' = cancel_existing_recs(recs, monitors, machine_id)
    /\ monitors' = cancel_existing_monitors(monitors, machine_id)
    /\ UNCHANGED <<generation, timers, fired>>

\* Variant: shutdown() cancels no task.
shutdown_recs_uncancelled(rs, mon) == rs

\* The MonitorState objects after shutdown()'s loop over self._monitors.values().
shutdown_recs(rs, mon) ==
    [i \in DOMAIN rs |->
        IF (\E k \in DOMAIN mon : mon[k] = i) /\ TaskRunning(rs[i])
        THEN [rs[i] EXCEPT !.must_cancel = TRUE]
        ELSE rs[i]]

\* Variant: shutdown() also cancels the pending _evict tasks.
ShutdownCancellingTimers ==
    /\ recs' = shutdown_recs(recs, monitors)
    /\ monitors' = DictClear(monitors)
    /\ timers' = {}
    /\ UNCHANGED <<generation, fired>>

\* WakeMonitorManager.shutdown
Shutdown ==
    /\ recs' = shutdown_recs(recs, monitors)
    /\ monitors' = DictClear(monitors)
    /\ UNCHANGED <<generation, timers, fired>>

\* Variant: the entry is taken out of the dict as it is read.
GetPopping(machine_id) ==
    /\ monitors' = cancel_existing_monitors(monitors, machine_id)
    /\ UNCHANGED <<recs, generation, timers, fired>>

\* WakeMonitorManager.get, as a step: `self._monitors.get(machine_id)` and
\* to_dict() read, and assign nothing.
Get(machine_id) == UNCHANGED <<recs, monitors, generation, timers, fired>>

\* WakeMonitorManager.get_all, as a step.
GetAll == UNCHANGED <<recs, monitors, generation, timers, fired>>

\* _evict, when its sleep of _EVICT_AFTER seconds is over.
Evict(machine_id, gen) ==
    /\ <<machine_id, gen>> \in timers
    /\ timers' = timers \ {<<machine_id, gen>>}
    /\ monitors' = IF EvictGuard(recs, monitors, machine_id, gen)
                   THEN DictPop(monitors, machine_id)
                   ELSE monitors
    /\ fired' = fired \cup {<<machine_id, gen, EvictGuard(recs, monitors, machine_id, gen)>>}
    /\ UNCHANGED <<recs, generation>>

\* -------------------------------------------------------------- poll loop

\* Variant: the `while` test with `<=`.
AttemptsLeftInclusive(s) == s.attempts <= s.max_attempts

\* `while state.attempts < state.max_attempts`
AttemptsLeft(s) == s.attempts < s.max_attempts

\* _run from the `while` test to the next await or to its end: either the
\* next probe is started or the attempts are exhausted.
LoopHead(i) ==
    LET s == recs[i] IN
    IF AttemptsLeft(s)
    THEN /\ recs' = [recs EXCEPT ![i].status = CHECKING,
                                 ![i].attempts = @ + 1,
                                 ![i].probes = @ + 1,
                                 ![i].task = "probe"]
         /\ timers' = timers
    ELSE /\ recs' = [recs EXCEPT ![i].status = TIMEOUT,
                                 ![i].finished_at = Stamp,
                                 ![i].finished_writes = @ + 1,
                                 ![i].task = "done"]
         /\ timers' = schedule_eviction(timers, s.machine_id, s.generation)

\* First step of the task: _run enters its try block and sleeps 5 s.
RunBegin(i) ==
    /\ i \in DOMAIN recs
    /\ recs[i].task = "created"
    /\ ~recs[i].must_cancel
    /\ recs' = [recs EXCEPT ![i].task = "grace"]
    /\ UNCHANGED <<monitors, generation, timers, fired>>

\* A task cancelled before its first step: CancelledError is thrown into the
\* coroutine before it has entered the try block, so no handler of _run runs.
RunNeverStarted(i) ==
    /\ i \in DOMAIN recs
    /\ recs[i].task = "created"
    /\ recs[i].must_cancel
    /\ recs' = [recs EXCEPT ![i].task = "done"]
    /\ UNCHANGED <<monitors, generation, timers, fired>>

\* The 5 s grace sleep is over.
GraceOver(i) ==
    /\ i \in DOMAIN recs
    /\ recs[i].task = "grace"
    /\ ~recs[i].must_cancel
    /\ LoopHead(i)
    /\ UNCHANGED <<monitors, generation, fired>>

\* Variant: no eviction is scheduled for a record that ends Online.
ProbeReturnsUnevicted(i, online) ==
    /\ i \in DOMAIN recs
    /\ recs[i].task = "probe"
    /\ ~recs[i].must_cancel
    /\ IF online
       THEN recs' = [recs EXCEPT ![i].status = ONLINE,
                                 ![i].finished_at = Stamp,
                                 ![i].finished_writes = @ + 1,
                                 ![i].answers = Append(@, TRUE),
                                 ![i].task = "done"]
       ELSE recs' = [recs EXCEPT ![i].answers = Append(@, FALSE),
                                 ![i].task = "interval"]
    /\ UNCHANGED <<monitors, generation, timers, fired>>

\* check_host_online returns `online`.
ProbeReturns(i, online) ==
    /\ i \in DOMAIN recs
    /\ recs[i].task = "probe"
    /\ ~recs[i].must_cancel
    /\ IF online
       THEN /\ recs' = [recs EXCEPT ![i].status = ONLINE,
                                    ![i].finished_at = Stamp,
                                    ![i].finished_writes = @ + 1,
                                    ![i].answers = Append(@, TRUE),
                                    ![i].task = "done"]
            /\ timers' = schedule_eviction(timers, recs[i].machine_id, recs[i].generation)
       ELSE /\ recs' = [recs EXCEPT ![i].answers = Append(@, FALSE),
                                    ![i].task = "interval"]
            /\ timers' = timers
    /\ UNCHANGED <<monitors, generation, fired>>

\* The sleep between two attempts is over.
IntervalOver(i) ==
    /\ i \in DOMAIN recs
    /\ recs[i].task = "interval"
    /\ ~recs[i].must_cancel
    /\ LoopHead(i)
    /\ UNCHANGED <<monitors, generation, fired>>

\* Variant: the handler of the cancellation schedules an eviction.
RunCancelledEvicting(i) ==
    /\ i \in DOMAIN recs
    /\ recs[i].task \in {"grace", "probe", "interval"}
    /\ recs[i].must_cancel
    /\ recs' = [recs EXCEPT ![i].status = CANCELLED,
                            ![i].finished_at = Stamp,
                            ![i].finished_writes = @ + 1,
                            ![i].must_cancel = FALSE,
                            ![i].task = "done"]
    /\ timers' = schedule_eviction(timers, recs[i].machine_id, recs[i].generation)
    /\ UNCHANGED <<monitors, generation, fired>>

\* `except asyncio.CancelledError`: the task runs again after Task.cancel()
\* and finds CancelledError at the await where it was suspended.
RunCancelled(i) ==
    /\ i \in DOMAIN recs
    /\ recs[i].task \in {"grace", "probe", "interval"}
    /\ recs[i].must_cancel
    /\ recs' = [recs EXCEPT ![i].status = CANCELLED,
                            ![i].finished_at = Stamp,
                            ![i].finished_writes = @ + 1,
                            ![i].must_cancel = FALSE,
                            ![i].task = "done"]
    /\ UNCHANGED <<monitors, generation, timers, fired>>

\* Variant: the handler of the unexpected error schedules no eviction.
RunErrorUnevicted(i) ==
    /\ i \in DOMAIN recs
    /\ recs[i].task \in {"grace", "probe", "interval"}
    /\ ~recs[i].must_cancel
    /\ recs' = [recs EXCEPT ![i].status = TIMEOUT,
                            ![i].finished_at = Stamp,
                            ![i].finished_writes = @ + 1,
                            ![i].task = "done"]
    /\ UNCHANGED <<monitors, generation, timers, fired>>

\* `except Exception`: an unexpected error comes out of the awaited probe or
\* of one of the sleeps.
RunError(i) ==
    /\ i \in DOMAIN recs
    /\ recs[i].task \in {"grace", "probe", "interval"}
    /\ ~recs[i].must_cancel
    /\ recs' = [recs EXCEPT ![i].status = TIMEOUT,
                            ![i].finished_at = Stamp,
                            ![i].finished_writes = @ + 1,
                            ![i].task = "done"]
    /\ timers' = schedule_eviction(timers, recs[i].machine_id, recs[i].generation)
    /\ UNCHANGED <<monitors, generation, fired>>

RecIds == 1..MaxRecs

Next ==
    \/ \E k \in Keys, a \in Addresses, n \in Budgets :
          Len(recs) < MaxRecs /\ Start(k, a, n) /\ Unobserved
    \/ \E k \in Keys : Cancel(k) /\ Unobserved
    \/ Shutdown /\ Unobserved
    \/ \E t \in timers : Evict(t[1], t[2]) /\ Unobserved
    \/ \E i \in RecIds : RunBegin(i) /\ Unobserved
    \/ \E i \in RecIds : RunNeverStarted(i) /\ Unobserved
    \/ \E i \in RecIds : GraceOver(i) /\ Unobserved
    \/ \E i \in RecIds, online \in BOOLEAN : ProbeReturns(i, online) /\ Unobserved
    \/ \E i \in RecIds : IntervalOver(i) /\ Unobserved
    \/ \E i \in RecIds : RunCancelled(i) /\ Unobserved
    \/ \E i \in RecIds : RunError(i) /\ Unobserved

Spec == Init /\ [][Next]_vars

\* A step of the task that runs the poll loop of record i.
LoopStep(i) ==
    \/ RunBegin(i)
    \/ RunNeverStarted(i)
    \/ GraceOver(i)
    \/ ProbeReturns(i, TRUE)
    \/ ProbeReturns(i, FALSE)
    \/ IntervalOver(i)
    \/ RunCancelled(i)
    \/ RunError(i)

\* The event loop runs every task that is ready, every sleep ends and the
\* probe returns or fails (check_host_online bounds it by its timeout): a
\* poll-loop task that can take a step takes one.
Fairness == \A i \in RecIds : WF_vars(LoopStep(i) /\ Unobserved)

SpecFair == Spec /\ Fairness

\* The sleep of every _evict task ends: a pending eviction timer fires.
TimerFairness == WF_vars(\E t \in timers : Evict(t[1], t[2]) /\ Unobserved)

\* One machine, with or without an address, and its eviction timers.
TimerRecIds == 1..MaxTimerRecs

NextTimers ==
    \/ \E a \in Addresses, n \in Budgets :
          Len(recs) < MaxTimerRecs /\ Start(1, a, n) /\ Unobserved
    \/ Cancel(1) /\ Unobserved
    \/ Shutdown /\ Unobserved
    \/ \E t \in timers : Evict(t[1], t[2]) /\ Unobserved
    \/ \E i \in TimerRecIds : RunBegin(i) /\ Unobserved
    \/ \E i \in TimerRecIds : RunNeverStarted(i) /\ Unobserved
    \/ \E i \in TimerRecIds : GraceOver(i) /\ Unobserved
    \/ \E i \in TimerRecIds, online \in BOOLEAN : ProbeReturns(i, online) /\ Unobserved
    \/ \E i \in TimerRecIds : IntervalOver(i) /\ Unobserved
    \/ \E i \in TimerRecIds : RunCancelled(i) /\ Unobserved
    \/ \E i \in TimerRecIds : RunError(i) /\ Unobserved

SpecTimers == Init /\ [][NextTimers]_vars /\ TimerFairness

\* One machine, every budget: the poll loop from its creation to its end.
NextPoll ==
    \/ \E n \in PollBudgets : Len(recs) < MaxPollRecs /\ Start(1, "10.0.0.1", n) /\ Unobserved
    \/ Cancel(1) /\ Unobserved
    \/ \E t \in timers : Evict(t[1], t[2]) /\ Unobserved
    \/ \E i \in 1..MaxPollRecs : RunBegin(i) /\ Unobserved
    \/ \E i \in 1..MaxPollRecs : RunNeverStarted(i) /\ Unobserved
    \/ \E i \in 1..MaxPollRecs : GraceOver(i) /\ Unobserved
    \/ \E i \in 1..MaxPollRecs, online \in BOOLEAN : ProbeReturns(i, online) /\ Unobserved
    \/ \E i \in 1..MaxPollRecs : IntervalOver(i) /\ Unobserved
    \/ \E i \in 1..MaxPollRecs : RunCancelled(i) /\ Unobserved

SpecPoll == Init /\ [][NextPoll]_vars

\* More calls of start(), where only machine 1 has an address on record: a
\* start() for another machine is refused at the cap or builds a NoAddress
\* record.  The probe raises no unexpected error.
AddressOf(machine_id) == IF machine_id = 1 THEN "10.0.0.1" ELSE ""

WideRecIds == 1..MaxWideRecs

NextWide ==
    \/ \E k \in Keys, n \in Budgets :
          Len(recs) < MaxWideRecs /\ Start(k, AddressOf(k), n) /\ Unobserved
    \/ \E k \in Keys : Cancel(k) /\ Unobserved
    \/ Shutdown /\ Unobserved
    \/ \E t \in timers : Evict(t[1], t[2]) /\ Unobserved
    \/ \E i \in WideRecIds : RunBegin(i) /\ Unobserved
    \/ \E i \in WideRecIds : RunNeverStarted(i) /\ Unobserved
    \/ \E i \in WideRecIds : GraceOver(i) /\ Unobserved
    \/ \E i \in WideRecIds, online \in BOOLEAN : ProbeReturns(i, online) /\ Unobserved
    \/ \E i \in WideRecIds : IntervalOver(i) /\ Unobserved
    \/ \E i \in WideRecIds : RunCancelled(i) /\ Unobserved

SpecWide == Init /\ [][NextWide]_vars

\* The supervisor with its callers: each call of start, cancel, shutdown, get
\* and get_all leaves in ret what it returned, and in locked whether its body
\* ran inside `async with self._lock`.  The steps of tasks return to no caller.
Returned(op, machine_id, value) == [op |-> op, machine_id |-> machine_id, value |-> value]

\* start() returns the MonitorState it built, here by its index in recs.
StartCall(machine_id, ip_address, max_attempts) ==
    /\ Start(machine_id, ip_address, max_attempts)
    /\ ret' = Returned("start", machine_id, Len(recs'))
    /\ locked' = TRUE

\* cancel() returns what _cancel_existing returned.
CancelCall(machine_id) ==
    /\ Cancel(machine_id)
    /\ ret' = Returned("cancel", machine_id, cancel_existing_ret(monitors, machine_id))
    /\ locked' = TRUE

ShutdownCall ==
    /\ Shutdown
    /\ ret' = Returned("shutdown", 0, None)
    /\ locked' = TRUE

\* get() and get_all() do not take the lock.
GetCall(machine_id) ==
    /\ Get(machine_id)
    /\ ret' = Returned("get", machine_id, get(machine_id))
    /\ locked' = FALSE

GetAllCall ==
    /\ GetAll
    /\ ret' = Returned("get_all", 0, get_all)
    /\ locked' = FALSE

\* A step of a poll loop or of an _evict task: neither takes the lock.
TaskStep == ret' = NoCall /\ locked' = FALSE

ApiRecIds == 1..MaxApiRecs

NextApi ==
    \/ \E k \in Keys, a \in Addresses, n \in Budgets :
          Len(recs) < MaxApiRecs /\ StartCall(k, a, n)
    \/ \E k \in Keys : CancelCall(k)
    \/ ShutdownCall
    \/ \E k \in Keys : GetCall(k)
    \/ GetAllCall
    \/ \E t \in timers : Evict(t[1], t[2]) /\ TaskStep
    \/ \E i \in ApiRecIds : RunBegin(i) /\ TaskStep
    \/ \E i \in ApiRecIds : RunNeverStarted(i) /\ TaskStep
    \/ \E i \in ApiRecIds : GraceOver(i) /\ TaskStep
    \/ \E i \in ApiRecIds, online \in BOOLEAN : ProbeReturns(i, online) /\ TaskStep
    \/ \E i \in ApiRecIds : IntervalOver(i) /\ TaskStep
    \/ \E i \in ApiRecIds : RunCancelled(i) /\ TaskStep
    \/ \E i \in ApiRecIds : RunError(i) /\ TaskStep

SpecApi == Init /\ [][NextApi]_vars

\* ------------------------------------------------------------------ claims

\* The records of machine k that self._monitors holds.
LiveOf(k) == {x \in DOMAIN monitors : recs[monitors[x]].machine_id = k}

\* C1: in every reachable state the live map holds at most one record of each
\* machine, stored under that machine's id, and so at most one non-terminal
\* record of each machine.
C1_OneLiveRecordPerKey ==
    /\ \A x \in DOMAIN monitors : recs[monitors[x]].machine_id = x
    /\ \A k \in Keys : Cardinality(LiveOf(k)) <= 1
    /\ \A k \in Keys :
          Cardinality({x \in LiveOf(k) : ~is_terminal(recs[monitors[x]])}) <= 1

\* C1 witness: a machine was started a second time and the map holds its
\* second record, not yet terminal, while the first still exists.
C1_Witness ==
    \E i, j \in DOMAIN recs :
        /\ i < j
        /\ recs[i].machine_id = recs[j].machine_id
        /\ recs[i].generation > 0
        /\ recs[j].machine_id \in DOMAIN monitors
        /\ monitors[recs[j].machine_id] = j
        /\ ~is_terminal(recs[j])

\* C2 (as claimed): among all records ever created, no two records of one
\* machine are non-terminal (Pending or Checking) at the same instant.
C2_OneNonTerminalEver ==
    \A i, j \in DOMAIN recs :
        (i # j /\ recs[i].machine_id = recs[j].machine_id)
            => (is_terminal(recs[i]) \/ is_terminal(recs[j]))

\* C3: when the eviction timer of (k, g) fires, the entry of k is removed if
\* and only if it has generation g; an absent key or a record of another
\* generation leaves the map as it is.
C3_EvictionGuarded ==
    [][\A t \in timers :
          Evict(t[1], t[2]) =>
             IF t[1] \in DOMAIN monitors /\ recs[monitors[t[1]]].generation = t[2]
             THEN /\ t[1] \notin DOMAIN monitors'
                  /\ \A x \in DOMAIN monitors \ {t[1]} :
                        x \in DOMAIN monitors' /\ monitors'[x] = monitors[x]
             ELSE monitors' = monitors]_vars

\* C3 witness: a stale timer has fired without popping while its machine
\* holds a record of a later generation.
C3_Witness ==
    \E f \in fired :
        /\ f[3] = FALSE
        /\ f[1] \in DOMAIN monitors
        /\ recs[monitors[f[1]]].generation > f[2]

\* A step of start(k, ...): the only operation that constructs a MonitorState.
\* The record it returns is the last of recs'.
Started(k) == Len(recs') = Len(recs) + 1 /\ recs'[Len(recs')].machine_id = k

\* The record is as the start() that inserted it left it: its poll loop has
\* not run a step, or it was built without a loop for an empty address.
AsCreated(s) == (s.task = "created" /\ s.status = PENDING) \/ s.status = NO_IP

\* The non-terminal records of the map, the one of machine k not counted.
ActiveBeside(k) ==
    Cardinality({x \in DOMAIN monitors \ {k} : ~is_terminal(recs[monitors[x]])})

\* C4 (as claimed): start(k) called right after start(k): the first record
\* ends Cancelled, the second has a strictly greater generation and is the
\* only entry of k.
C4_StartTwice ==
    [][\A k \in Keys :
          (Started(k) /\ k \in DOMAIN monitors /\ AsCreated(recs[monitors[k]])) =>
             LET old == monitors[k]
                 new == Len(recs')
             IN  /\ recs'[old].status = CANCELLED
                 /\ recs'[new].generation > recs[old].generation
                 /\ {x \in DOMAIN monitors' : recs'[monitors'[x]].machine_id = k} = {k}
                 /\ monitors'[k] = new]_vars

\* C4 (amended): start(k) called right after a start(k) that was not refused:
\* the second record has a strictly greater generation and is the only entry
\* of k; the first record ends Cancelled if it had a poll loop and stays
\* NoAddress if it was built for an empty address.
C4_StartTwiceAmended ==
    [][\A k \in Keys :
          (/\ Started(k)
           /\ k \in DOMAIN monitors
           /\ AsCreated(recs[monitors[k]])
           /\ ActiveBeside(k) < MAX_CONCURRENT) =>
             LET old == monitors[k]
                 new == Len(recs')
             IN  /\ recs[old].task = "created" => recs'[old].status = CANCELLED
                 /\ recs[old].status = NO_IP => recs'[old].status = NO_IP
                 /\ recs'[new].generation > recs[old].generation
                 /\ {x \in DOMAIN monitors' : recs'[monitors'[x]].machine_id = k} = {k}
                 /\ monitors'[k] = new]_vars

\* C4 witness: a record cancelled before its loop ran a step, replaced in the
\* map by the next record of the same machine.
C4_Witness ==
    \E i \in DOMAIN recs :
        /\ i + 1 \in DOMAIN recs
        /\ recs[i].machine_id = recs[i + 1].machine_id
        /\ recs[i].task = "created" /\ recs[i].must_cancel
        /\ recs[i].status = CANCELLED
        /\ recs[i + 1].generation > recs[i].generation
        /\ recs[i].machine_id \in DOMAIN monitors
        /\ monitors[recs[i].machine_id] = i + 1

\* C5: start(k) for a machine without a record, with the non-terminal records
\* of the map at or above the cap: the record returned is TimedOut with no
\* attempts and finished_at set; no task, no eviction timer, no insertion,
\* and the count of non-terminal records is unchanged.
C5_RefusedAtCapacity ==
    [][\A k \in Keys :
          (/\ Started(k)
           /\ k \notin DOMAIN monitors
           /\ ActiveCount(recs, monitors) >= MAX_CONCURRENT) =>
             LET r == recs'[Len(recs')]
             IN  /\ r.status = TIMEOUT
                 /\ r.attempts = 0
                 /\ r.finished_at = Stamp
                 /\ r.task = "none"
                 /\ timers' = timers
                 /\ monitors' = monitors
                 /\ SubSeq(recs', 1, Len(recs)) = recs
                 /\ ActiveCount(recs', monitors') = ActiveCount(recs, monitors)]_vars

\* C5 witness: a refused record exists, outside the map, with the map full.
C5_Witness ==
    \E i \in DOMAIN recs :
        /\ recs[i].generation = 0
        /\ recs[i].status = TIMEOUT
        /\ recs[i].task = "none"
        /\ recs[i].machine_id \notin DOMAIN monitors
        /\ ActiveCount(recs, monitors) >= MAX_CONCURRENT

\* C6: start(k, "") with capacity available: the record returned is NoAddress,
\* finished, with no attempts and the freshly incremented generation; it is
\* inserted, its eviction timer is scheduled, and it has no poll loop, so the
\* probe is never called for it.
C6_NoAddress ==
    /\ [][\A k \in Keys :
            (/\ Started(k)
             /\ recs'[Len(recs')].ip_address = ""
             /\ ActiveBeside(k) < MAX_CONCURRENT) =>
               LET r == recs'[Len(recs')]
               IN  /\ r.status = NO_IP
                   /\ to_dict(r).finished
                   /\ r.attempts = 0
                   /\ r.generation = generation + 1
                   /\ generation' = generation + 1
                   /\ k \in DOMAIN monitors' /\ monitors'[k] = Len(recs')
                   /\ <<k, r.generation>> \in timers'
                   /\ r.task = "none"]_vars
    /\ [](\A i \in DOMAIN recs :
            recs[i].status = NO_IP => (recs[i].task = "none" /\ recs[i].probes = 0))

\* C6 witness: a NoAddress record in the map, its eviction timer pending.
C6_Witness ==
    \E k \in DOMAIN monitors :
        /\ recs[monitors[k]].status = NO_IP
        /\ recs[monitors[k]].generation = generation
        /\ <<k, recs[monitors[k]].generation>> \in timers
        /\ recs[monitors[k]].probes = 0

\* The position of the first TRUE in a sequence of probe answers that has one.
FirstTrue(ans) ==
    CHOOSE j \in 1..Len(ans) : ans[j] /\ \A h \in 1..(j - 1) : ~ans[h]

\* C7: a poll loop that ran to its end without being cancelled, with budget
\* max_attempts = N: if the probe answered TRUE, the first TRUE was answer
\* number i <= N and the record is Online with attempts = i; if all N answers
\* were FALSE the record is TimedOut with attempts = N.  The probe was called
\* exactly `attempts` times.
C7_PollOutcome ==
    \A i \in DOMAIN recs :
        LET s == recs[i] IN
        (s.task = "done" /\ s.status # CANCELLED /\ ~s.must_cancel) =>
            /\ s.probes = s.attempts
            /\ Len(s.answers) = s.attempts
            /\ IF \E j \in 1..Len(s.answers) : s.answers[j]
               THEN /\ s.status = ONLINE
                    /\ s.attempts = FirstTrue(s.answers)
                    /\ s.attempts <= s.max_attempts
               ELSE /\ s.status = TIMEOUT
                    /\ s.attempts = s.max_attempts

\* C7 witness: answers false, false, true with a budget of 3 ended Online
\* after 3 attempts.
C7_Witness ==
    \E i \in DOMAIN recs :
        /\ recs[i].task = "done"
        /\ recs[i].max_attempts = 3
        /\ recs[i].answers = <<FALSE, FALSE, TRUE>>
        /\ recs[i].status = ONLINE
        /\ recs[i].attempts = 3

\* C8 (as claimed): an Online record in the map stays the entry of its
\* machine until its eviction timer fires, after which get() returns none,
\* unless a start() for the machine comes first, after which get() returns
\* the newer record, which the old timer leaves alone.
C8_OnlineRetained ==
    [][\A k \in Keys :
          (k \in DOMAIN monitors /\ recs[monitors[k]].status = ONLINE) =>
             LET own == <<k, recs[monitors[k]].generation>>
             IN  \/ k \in DOMAIN monitors' /\ monitors'[k] = monitors[k]
                 \/ own \in timers /\ own \notin timers' /\ get(k)' = None
                 \/ /\ Started(k)
                    /\ k \in DOMAIN monitors'
                    /\ monitors'[k] = Len(recs')
                    /\ get(k)' = to_dict(recs'[Len(recs')])]_vars

\* C8 (amended): an Online record in the map has its eviction timer pending
\* and stays the entry of its machine until that timer fires, after which
\* get() returns none, unless a start() or a cancel() for the machine or a
\* shutdown() comes first.  After a start() that is not refused get() returns
\* the newer record, and the old timer leaves it alone; after a refused
\* start(), a cancel() or a shutdown() get() returns none.
C8_OnlineRetainedAmended ==
    /\ [](\A k \in DOMAIN monitors :
            recs[monitors[k]].status = ONLINE =>
                <<k, recs[monitors[k]].generation>> \in timers)
    /\ [][\A k \in Keys :
            (k \in DOMAIN monitors /\ recs[monitors[k]].status = ONLINE) =>
               LET own == <<k, recs[monitors[k]].generation>>
               IN  /\ \/ k \in DOMAIN monitors' /\ monitors'[k] = monitors[k]
                      \/ own \in timers /\ own \notin timers' /\ get(k)' = None
                      \/ /\ Started(k)
                         /\ recs'[Len(recs')].generation > 0
                         /\ k \in DOMAIN monitors'
                         /\ monitors'[k] = Len(recs')
                         /\ get(k)' = to_dict(recs'[Len(recs')])
                      \/ /\ Started(k)
                         /\ recs'[Len(recs')].generation = 0
                         /\ get(k)' = None
                      \/ Cancel(k) /\ get(k)' = None
                      \/ Shutdown /\ get(k)' = None
                   /\ (own \in timers /\ own \notin timers') => get(k)' = None]_vars
    /\ [][\A t \in timers :
            (/\ Evict(t[1], t[2])
             /\ t[1] \in DOMAIN monitors
             /\ recs[monitors[t[1]]].generation # t[2]) =>
                get(t[1])' = get(t[1])]_vars

\* C8 witness: an Online record was popped by its own eviction timer and
\* get() now returns none for its machine.
C8_Witness ==
    \E i \in DOMAIN recs :
        /\ recs[i].status = ONLINE
        /\ <<recs[i].machine_id, recs[i].generation, TRUE>> \in fired
        /\ get(recs[i].machine_id) = None

\* C9: after shutdown() get_all() is empty, and every poll loop that was
\* still running, wherever it is suspended, has a cancellation request.
C9_Shutdown ==
    [][Shutdown =>
          /\ get_all' = {}
          /\ \A i \in DOMAIN recs : TaskRunning(recs[i]) => recs'[i].must_cancel]_vars

\* C9 witness: the map is empty and a loop suspended in the probe, its record
\* still Checking, has the cancellation request that shutdown() left.
C9_Witness ==
    /\ get_all = {}
    /\ \E i \in DOMAIN recs :
          /\ recs[i].task = "probe"
          /\ recs[i].status = CHECKING
          /\ recs[i].must_cancel

\* C10: a terminal status never changes again, whatever step comes next.
C10_TerminalIsFinal ==
    [][\A i \in DOMAIN recs :
          is_terminal(recs[i]) => recs'[i].status = recs[i].status]_vars

\* C10 witness: an Online record was taken out of the map by start(),
\* cancel() or shutdown() (its eviction timer is still pending) and is still
\* Online.
C10_Witness ==
    \E i \in DOMAIN recs :
        /\ recs[i].status = ONLINE
        /\ <<recs[i].machine_id, recs[i].generation>> \in timers
        /\ \/ recs[i].machine_id \notin DOMAIN monitors
           \/ monitors[recs[i].machine_id] # i

\* A record that start() built for a caller it refused at the cap: it has no
\* poll loop and was never given a value of the generation counter.
Refused(s) == s.task = "none" /\ s.status = TIMEOUT

\* C11 (as claimed): of two records that start() creates for one machine the
\* later has a strictly greater generation than the earlier, and no
\* generation is given to two records.
C11_GenerationsIncrease ==
    /\ \A i, j \in DOMAIN recs :
          (i < j /\ recs[i].machine_id = recs[j].machine_id) =>
              recs[i].generation < recs[j].generation
    /\ \A i, j \in DOMAIN recs : i # j => recs[i].generation # recs[j].generation

\* C11 (amended): of two records that start() creates for one machine
\* without refusing the call at the cap, the later has a strictly greater
\* generation than the earlier, and no generation is given to two records
\* that were not refused: each gets the value of the counter right after its
\* increment, and the counter never decreases.  A refused record has
\* generation 0, which the counter gives to no record.
C11_GenerationsIncreaseAmended ==
    /\ [][generation' >= generation]_vars
    /\ [](\A i, j \in DOMAIN recs :
            (i < j /\ ~Refused(recs[i]) /\ ~Refused(recs[j])) =>
                recs[i].generation < recs[j].generation)
    /\ [](\A i \in DOMAIN recs :
            IF Refused(recs[i])
            THEN recs[i].generation = 0
            ELSE recs[i].generation >= 1 /\ recs[i].generation <= generation)
    /\ [][\A k \in Keys :
            (Started(k) /\ ~Refused(recs'[Len(recs')])) =>
                /\ generation' = generation + 1
                /\ recs'[Len(recs')].generation = generation']_vars

\* C11 witness: two records of one machine with generations 1 and 2, then a
\* record refused at the cap, with generation 0.
C11_Witness ==
    \E i, j, h \in DOMAIN recs :
        /\ i < j /\ j < h
        /\ recs[i].machine_id = recs[j].machine_id
        /\ ~Refused(recs[i]) /\ ~Refused(recs[j]) /\ Refused(recs[h])
        /\ recs[i].generation = 1
        /\ recs[j].generation = 2
        /\ recs[h].generation = 0
        /\ generation = 2

C13_ReadsChangeNothing ==
    /\ [][\A k \in Keys :
            GetCall(k) =>
               /\ UNCHANGED <<recs, monitors, generation, timers, fired>>
               /\ ~locked'
               /\ (ret'.value = None) <=> (k \notin DOMAIN monitors)
               /\ k \in DOMAIN monitors =>
                     /\ ret'.value.machine_id = k
                     /\ ret'.value.status = recs[monitors[k]].status
                     /\ ret'.value.attempts = recs[monitors[k]].attempts
                     /\ ret'.value.finished <=>
                           ret'.value.status \in {ONLINE, TIMEOUT, CANCELLED, NO_IP}]_vars
    /\ [][GetAllCall =>
            /\ UNCHANGED <<recs, monitors, generation, timers, fired>>
            /\ ~locked'
            /\ {d.machine_id : d \in ret'.value} = DOMAIN monitors
            /\ \A d \in ret'.value :
                  /\ d.status = recs[monitors[d.machine_id]].status
                  /\ d.finished <=> d.status \in {ONLINE, TIMEOUT, CANCELLED, NO_IP}]_vars

\* C13 witness: get(k) has just returned the finished snapshot of an Online
\* record that is still the entry of k.
C13_Witness ==
    /\ ret.op = "get"
    /\ ret.value # None
    /\ ret.value.status = ONLINE
    /\ ret.value.finished
    /\ ret.machine_id \in DOMAIN monitors
    /\ recs[monitors[ret.machine_id]].status = ONLINE

\* The poll-loop tasks of machine k that are live: not exited, and with no
\* cancellation request pending.
LiveLoops(k) ==
    {i \in DOMAIN recs :
        recs[i].machine_id = k /\ TaskRunning(recs[i]) /\ ~recs[i].must_cancel}

\* C14: at any instant at most one poll-loop task of a machine is live, and
\* it is the one of the machine's entry in the map; a loop with a
\* cancellation request pending, and a loop that has exited, never calls the
\* probe again.
C14_OneLiveLoopPerKey ==
    /\ [](\A k \in Keys :
            /\ Cardinality(LiveLoops(k)) <= 1
            /\ \A i \in LiveLoops(k) : k \in DOMAIN monitors /\ monitors[k] = i)
    /\ [][\A i \in DOMAIN recs :
            (recs[i].must_cancel \/ ~TaskRunning(recs[i])) =>
                recs'[i].probes = recs[i].probes]_vars

\* C14 witness: start() replaced a loop that was in its probe; the old task
\* has not run since and holds its cancellation request, while the new loop
\* of the same machine is in its own probe.
C14_Witness ==
    \E i, j \in DOMAIN recs :
        /\ i < j
        /\ recs[i].machine_id = recs[j].machine_id
        /\ recs[i].task = "probe" /\ recs[i].must_cancel
        /\ recs[j].task = "probe" /\ ~recs[j].must_cancel
        /\ LiveLoops(recs[j].machine_id) = {j}

\* C15 (as claimed): every step that inserts an entry into the map or removes
\* one, the step of an eviction timer included, runs inside the supervisor's
\* lock.
C15_MapChangesUnderLock ==
    [][(DOMAIN monitors' # DOMAIN monitors
        \/ \E k \in DOMAIN monitors : monitors'[k] # monitors[k]) => locked']_vars

\* The fields of a record that its readers see, and the count of the
\* assignments to finished_at.
Written(s) == <<s.status, s.attempts, s.finished_at, s.finished_writes>>

\* C16 (as claimed): a record that is not terminal is written by the steps of
\* its own poll loop only; a terminal record is not written again, on the
\* path where start() or cancel() cancels a running loop and the loop later
\* sees the cancellation included; finished_at is assigned once per record.
C16_OwnedThenReadOnly ==
    /\ [][\A i \in DOMAIN recs :
            /\ (~is_terminal(recs[i]) /\ Written(recs'[i]) # Written(recs[i]))
                  => LoopStep(i)
            /\ is_terminal(recs[i]) => Written(recs'[i]) = Written(recs[i])]_vars
    /\ [](\A i \in DOMAIN recs : recs[i].finished_writes <= 1)

\* C17: when the probe, or a sleep, of a poll loop raises an unexpected error
\* the record becomes TimedOut with finished_at set, the eviction timer of
\* its (machine, generation) is scheduled, and the loop is over: no probe
\* and no attempt is added then or later.  The step is one of the task, after
\* start() has returned: it changes neither the map nor the counter.
C17_UnexpectedError ==
    /\ [][\A i \in DOMAIN recs :
            RunError(i) =>
               /\ recs'[i].status = TIMEOUT
               /\ recs'[i].finished_at = Stamp
               /\ <<recs[i].machine_id, recs[i].generation>> \in timers'
               /\ recs'[i].task = "done"
               /\ recs'[i].probes = recs[i].probes
               /\ recs'[i].attempts = recs[i].attempts
               /\ UNCHANGED <<monitors, generation>>
               /\ \A j \in DOMAIN recs \ {i} : recs'[j] = recs[j]]_vars
    /\ [][\A i \in DOMAIN recs :
            recs[i].task = "done" =>
               /\ recs'[i].task = "done"
               /\ recs'[i].probes = recs[i].probes
               /\ recs'[i].attempts = recs[i].attempts]_vars

\* C17 witness: a probe was started and raised instead of answering: the
\* record is TimedOut after one attempt with no answer, its loop over, its
\* eviction timer pending.
C17_Witness ==
    \E i \in DOMAIN recs :
        /\ recs[i].status = TIMEOUT
        /\ recs[i].task = "done"
        /\ recs[i].attempts = 1
        /\ recs[i].probes = 1
        /\ recs[i].answers = <<>>
        /\ recs[i].finished_at = Stamp
        /\ <<recs[i].machine_id, recs[i].generation>> \in timers

\* C18: a poll loop suspended at one of its awaits with a cancellation
\* request pending, left by start(), cancel() or shutdown(), does one more
\* step: it sets its record Cancelled with finished_at set and exits.  That
\* step schedules no eviction timer, calls no probe and adds no attempt; the
\* record stays Cancelled, no eviction timer ever exists for it, and the
\* exited loop does nothing more.
C18_CancellationObserved ==
    /\ [][\A i \in DOMAIN recs :
            (/\ recs[i].must_cancel
             /\ recs[i].task \in {"grace", "probe", "interval"}
             /\ recs'[i] # recs[i]) =>
                /\ RunCancelled(i)
                /\ recs'[i].status = CANCELLED
                /\ recs'[i].finished_at = Stamp
                /\ recs'[i].task = "done"
                /\ recs'[i].probes = recs[i].probes
                /\ recs'[i].attempts = recs[i].attempts
                /\ timers' = timers]_vars
    /\ [][\A i \in DOMAIN recs :
            (recs[i].status = CANCELLED /\ recs[i].task = "done") =>
                /\ recs'[i].status = CANCELLED
                /\ recs'[i].task = "done"
                /\ recs'[i].probes = recs[i].probes
                /\ recs'[i].attempts = recs[i].attempts]_vars
    /\ [](\A i \in DOMAIN recs :
            recs[i].status = CANCELLED =>
                /\ <<recs[i].machine_id, recs[i].generation>> \notin timers
                /\ \A f \in fired : <<f[1], f[2]>> # <<recs[i].machine_id, recs[i].generation>>)

\* C18 witness: shutdown() left a request to a loop that was in its probe;
\* the loop has since set its record Cancelled itself (the only assignment
\* of finished_at) and exited after one attempt, with no eviction timer.
C18_Witness ==
    \E i \in DOMAIN recs :
        /\ recs[i].status = CANCELLED
        /\ recs[i].task = "done"
        /\ recs[i].finished_at = Stamp
        /\ recs[i].finished_writes = 1
        /\ recs[i].attempts = 1
        /\ recs[i].probes = 1
        /\ recs[i].answers = <<>>
        /\ <<recs[i].machine_id, recs[i].generation>> \notin timers

\* C19 (as claimed): under a fair scheduler and a probe that always returns
\* or fails, every record that start() creates is terminal at some time,
\* whether its loop runs to its end, is cancelled by start() or cancel(), or
\* is cancelled by shutdown() at any point, before its first step included.
C19_EventuallyTerminal ==
    \A i \in RecIds :
        (i \in DOMAIN recs) ~> (i \in DOMAIN recs /\ is_terminal(recs[i]))

\* C20 (as claimed): cancel(k) returns true only if the poll loop of k's
\* record was still running when it was called; for a record that is already
\* terminal and waits in the map for its eviction it returns false.
C20_TrueOnlyIfRunning ==
    [][\A k \in Keys :
          CancelCall(k) =>
             /\ ret'.value = TRUE =>
                   (k \in DOMAIN monitors /\ TaskRunning(recs[monitors[k]]))
             /\ (k \in DOMAIN monitors /\ is_terminal(recs[monitors[k]])) =>
                   ret'.value = FALSE]_vars

\* C21: in every reachable state the non-terminal records of the map number
\* at most _MAX_CONCURRENT, whatever calls of start() were made on whatever
\* machines.
C21_ActiveAtMostCap == ActiveCount(recs, monitors) <= MAX_CONCURRENT

\* C21 witness: the map is at the cap with non-terminal records and a start()
\* for another machine was refused.
C21_Witness ==
    /\ ActiveCount(recs, monitors) = MAX_CONCURRENT
    /\ \E i \in DOMAIN recs :
          /\ Refused(recs[i])
          /\ recs[i].machine_id \notin DOMAIN monitors
          /\ \E k \in DOMAIN monitors :
                monitors[k] < i /\ ~is_terminal(recs[monitors[k]])

\* The pending eviction timers of machine k.
TimersOf(k) == {t \in timers : t[1] = k}

\* C22 (as claimed): at most one eviction timer is pending for a machine,
\* every pending timer is that of a record still in the map, and shutdown()
\* leaves no timer pending.
C22_TimersDoNotAccumulate ==
    /\ [](\A k \in Keys : Cardinality(TimersOf(k)) <= 1)
    /\ [](\A t \in timers :
            t[1] \in DOMAIN monitors /\ recs[monitors[t[1]]].generation = t[2])
    /\ [][Shutdown => timers' = {}]_vars

\* C22 (amended): an eviction timer is scheduled once for a record, at the
\* step that ends it Online, TimedOut or NoAddress in the map, and stays
\* pending until it fires: start(), cancel() and shutdown() cancel no timer.
\* So every pending timer is that of exactly one record, which is Online,
\* TimedOut or NoAddress and may have left the map; a machine has at most
\* one pending timer per record of its own that ended so, and at most one
\* of them is the timer of its entry in the map.
C22_TimersOutliveRecords ==
    /\ [](\A t \in timers :
            /\ Cardinality({i \in DOMAIN recs :
                  recs[i].machine_id = t[1] /\ recs[i].generation = t[2]}) = 1
            /\ \A i \in DOMAIN recs :
                  (recs[i].machine_id = t[1] /\ recs[i].generation = t[2]) =>
                      recs[i].status \in {ONLINE, TIMEOUT, NO_IP}
            /\ \A f \in fired : <<f[1], f[2]>> # t)
    /\ [](\A k \in Keys :
            /\ Cardinality(TimersOf(k)) <=
                  Cardinality({i \in DOMAIN recs :
                      recs[i].machine_id = k /\ recs[i].generation > 0
                      /\ recs[i].status \in {ONLINE, TIMEOUT, NO_IP}})
            /\ Cardinality({t \in TimersOf(k) :
                  k \in DOMAIN monitors /\ recs[monitors[k]].generation = t[2]}) <= 1)
    /\ [][\A t \in timers' \ timers :
            /\ t[1] \in DOMAIN monitors'
            /\ recs'[monitors'[t[1]]].generation = t[2]
            /\ \A i \in DOMAIN recs :
                  (recs[i].machine_id = t[1] /\ recs[i].generation = t[2]) =>
                      ~is_terminal(recs[i])]_vars
    /\ [][\A t \in timers \ timers' : Evict(t[1], t[2])]_vars
    /\ [][(Shutdown \/ \E k \in Keys : Cancel(k)) => timers' = timers]_vars

\* C22 witness: two timers are pending for one machine, the older one being
\* that of a record start() has replaced; and shutdown() has emptied the map
\* since, leaving both pending.
C22_Witness ==
    \E i, j \in DOMAIN recs :
        /\ i < j
        /\ recs[i].machine_id = recs[j].machine_id
        /\ <<recs[i].machine_id, recs[i].generation>> \in timers
        /\ <<recs[j].machine_id, recs[j].generation>> \in timers
        /\ DOMAIN monitors = {}

\* Record i is the entry of its machine in the map, and terminal.
TerminalEntry(i) ==
    /\ i \in DOMAIN recs
    /\ recs[i].machine_id \in DOMAIN monitors
    /\ monitors[recs[i].machine_id] = i
    /\ is_terminal(recs[i])

\* C23: a record that is terminal while it is in the map has its eviction
\* timer, of its machine and generation, pending; so, eviction timers firing
\* when their sleep is over, it leaves the map: by that timer, or earlier by
\* a start() or cancel() for its machine or by shutdown().
C23_TerminalEntryLeaves ==
    /\ [](\A i \in DOMAIN recs :
            TerminalEntry(i) => <<recs[i].machine_id, recs[i].generation>> \in timers)
    /\ \A i \in TimerRecIds : TerminalEntry(i) ~> ~TerminalEntry(i)
    /\ [][\A i \in DOMAIN recs :
            (TerminalEntry(i) /\ ~TerminalEntry(i)') =>
                \/ Evict(recs[i].machine_id, recs[i].generation)
                \/ Started(recs[i].machine_id)
                \/ Cancel(recs[i].machine_id)
                \/ Shutdown]_vars

\* C23 witness: a record that ended TimedOut after its attempts was taken
\* out of the map by its own eviction timer.
C23_Witness ==
    \E i \in DOMAIN recs :
        /\ recs[i].status = TIMEOUT
        /\ recs[i].answers = <<FALSE>>
        /\ <<recs[i].machine_id, recs[i].generation, TRUE>> \in fired
        /\ recs[i].machine_id \notin DOMAIN monitors

\* Record i is the entry of its machine in the map m.
EntryIn(m, i, rs) == rs[i].machine_id \in DOMAIN m /\ m[rs[i].machine_id] = i

\* C24: no record of the map is Cancelled: the step that sets a record
\* Cancelled, in start(), in cancel() or in a loop that sees the cancellation
\* shutdown() left, finds the record out of the map or takes it out.
C24_NoCancelledEntry ==
    /\ [](\A k \in DOMAIN monitors : recs[monitors[k]].status # CANCELLED)
    /\ [][\A i \in DOMAIN recs :
            (recs[i].status # CANCELLED /\ recs'[i].status = CANCELLED) =>
                ~EntryIn(monitors', i, recs')]_vars

\* C24 witness: a record that start() replaced is Cancelled and out of the
\* map, which holds the newer record of that machine.
C24_Witness ==
    \E i, j \in DOMAIN recs :
        /\ i < j
        /\ recs[i].status = CANCELLED
        /\ recs[i].machine_id = recs[j].machine_id
        /\ EntryIn(monitors, j, recs)
        /\ recs[j].status # CANCELLED

\* C25: an eviction timer that removes an entry from the map removes a
\* terminal record whose poll loop, if it had one, has finished; a record
\* that is not terminal is never removed by a timer.
C25_EvictsOnlyTerminal ==
    [][\A t \in timers :
          (Evict(t[1], t[2]) /\ t[1] \in DOMAIN monitors) =>
             LET s == recs[monitors[t[1]]]
             IN  IF t[1] \notin DOMAIN monitors'
                 THEN is_terminal(s) /\ ~TaskRunning(s) /\ s.generation = t[2]
                 ELSE monitors' = monitors]_vars

\* C25 witness: the timer of a replaced record has fired and removed nothing,
\* and the timer of the newer record of that machine, whose poll loop had
\* finished, has fired and removed it.
C25_Witness ==
    \E f, g \in fired :
        /\ f[1] = g[1]
        /\ f[2] < g[2]
        /\ f[3] = FALSE
        /\ g[3] = TRUE
        /\ g[1] \notin DOMAIN monitors
        /\ \E i \in DOMAIN recs :
              /\ recs[i].machine_id = g[1]
              /\ recs[i].generation = g[2]
              /\ recs[i].task = "done"
              /\ is_terminal(recs[i])

\* C26: start(k) called while the entry of k is not terminal is not refused,
\* even with the map at the cap: _cancel_existing takes k's record out before
\* the count.  The call builds a record with a new generation and inserts it.
C26_OwnRecordNotCounted ==
    [][\A k \in Keys :
          (/\ Started(k)
           /\ k \in DOMAIN monitors
           /\ ~is_terminal(recs[monitors[k]])) =>
             LET r == recs'[Len(recs')]
             IN  /\ ~Refused(r)
                 /\ r.generation = generation + 1
                 /\ k \in DOMAIN monitors'
                 /\ monitors'[k] = Len(recs')
                 /\ recs'[monitors[k]].status = CANCELLED]_vars

\* C26 witness: with the map at the cap, start() replaced the non-terminal
\* record of a machine by a new one, which is the entry of the machine and
\* keeps the map at the cap.
C26_Witness ==
    \E i, j \in DOMAIN recs :
        /\ i < j
        /\ recs[i].machine_id = recs[j].machine_id
        /\ recs[i].status = CANCELLED /\ recs[i].must_cancel
        /\ recs[i].attempts = 1
        /\ EntryIn(monitors, j, recs)
        /\ recs[j].status = PENDING
        /\ ActiveCount(recs, monitors) = MAX_CONCURRENT

\* C27: a start(k) refused at the cap leaves every record that existed, the
\* entries of the other machines, the generation counter and the timers as
\* they were.  If k had an entry it was terminal, and it is out of the map
\* afterwards: get(k) returns none.  The refused record, of generation 0, is
\* no entry of the map, has no task and no timer: only the caller of start()
\* holds it.
C27_RefusedStartFrame ==
    [][\A k \in Keys :
          (Started(k) /\ Refused(recs'[Len(recs')])) =>
             /\ SubSeq(recs', 1, Len(recs)) = recs
             /\ UNCHANGED <<generation, timers, fired>>
             /\ DOMAIN monitors' = DOMAIN monitors \ {k}
             /\ \A x \in DOMAIN monitors' : monitors'[x] = monitors[x]
             /\ k \in DOMAIN monitors => is_terminal(recs[monitors[k]])
             /\ get(k)' = None
             /\ recs'[Len(recs')].generation = 0
             /\ recs'[Len(recs')].task = "none"
             /\ \A t \in timers' : t[2] # 0]_vars

\* C27 witness: a machine had a NoAddress record in the map; a start() for it
\* was refused because another machine keeps the map at the cap; the
\* NoAddress record is out of the map, its timer still pending, and get()
\* returns none for the machine.
C27_Witness ==
    \E i, j \in DOMAIN recs :
        /\ i < j
        /\ recs[i].machine_id = recs[j].machine_id
        /\ recs[i].status = NO_IP
        /\ <<recs[i].machine_id, recs[i].generation>> \in timers
        /\ Refused(recs[j])
        /\ get(recs[j].machine_id) = None
        /\ ActiveCount(recs, monitors) = MAX_CONCURRENT

====
